---- MODULE Spec2Model ----
(***************************************************************************)
(* Relationship graph of the network app (ConnectionRequest, Connection,   *)
(* Follow) as the handlers of backend/network/views.py and the signal      *)
(* receivers of backend/network/signals.py drive it.                       *)
(*                                                                         *)
(* A table is a bag of rows keyed by the columns the code reads:           *)
(*   requests     sequence of [sender, recipient, status], in creation     *)
(*                order; a request's id is its index                       *)
(*   connections  number of rows per <<user_a, user_b>>                    *)
(*   follows      number of rows per <<follower, following>>               *)
(* last is the response of the handler that ran last, with the             *)
(* _old_status attribute the pre_save receiver left on the instance.       *)
(* procs is, per worker serving requests side by side, the statement it    *)
(* is at, the instance it holds in memory and its last response.           *)
(***************************************************************************)
EXTENDS Integers, Sequences, FiniteSets, TLC

VARIABLES requests, connections, follows, last, procs, privacy, match, ranking,
          badge, user_type

vars == <<requests, connections, follows, last, procs, privacy, match,
         ranking, badge, user_type>>

\* ------------------------------------------------------------------ bounds
NumUsers == 2
MaxRequests == 3
NumProcs == 2
MaxCustomised == 2
MaxSubjects == 3
MaxYears == 3
MaxJobs == 3

Users == 1..NumUsers
\* a primary key no User row has
MissingUser == NumUsers + 1
UserIds == Users \cup {MissingUser}
Pairs == Users \X Users
Procs == 1..NumProcs

\* ------------------------------------------------------------------ accounts
\* UserType
EDUCATOR == "EDUCATOR"
INSTITUTION == "INSTITUTION"
SUPER_ADMIN == "SUPER_ADMIN"
UserType == {EDUCATOR, INSTITUTION, SUPER_ADMIN}
\* the value seed_data stores and the feed view compares with; the column
\* does not enforce the choices
TEACHER == "TEACHER"
StoredUserTypes == UserType \cup {TEACHER}

\* IsEducator.has_permission, for an authenticated user
IsEducator(u) == user_type[u] = "EDUCATOR"
IsTeacher(u) == IsEducator(u)

\* ------------------------------------------------------------------ models.py
PENDING == "PENDING"
ACCEPTED == "ACCEPTED"
REJECTED == "REJECTED"
WITHDRAWN == "WITHDRAWN"
ConnectionRequestStatus == {PENDING, ACCEPTED, REJECTED, WITHDRAWN}

Actions == {"ACCEPT", "REJECT", "WITHDRAW", "OTHER"}

\* where the post_save receiver may raise (a store error); "none": it does not
FaultPoints == {"connection", "follow1", "follow2"}
Faults == {"none"} \cup FaultPoints

EmptyTable == [p \in Pairs |-> 0]

\* a plain insert, with no lookup and no unique key
get_or_create_always_inserts(table, key) ==
    [table EXCEPT ![key] = @ + 1]

\* QuerySet.get_or_create on a table with unique_together on the key
get_or_create(table, key) ==
    IF table[key] > 0 THEN table ELSE [table EXCEPT ![key] = 1]

\* the canonical (user_a, user_b) of Connection.create_connection / are_connected
canonical(user1, user2) ==
    IF user1 < user2 THEN <<user1, user2>> ELSE <<user2, user1>>

\* the connection stored as (user1, user2), whichever is lower
create_connection_unordered(conns, user1, user2) ==
    get_or_create(conns, <<user1, user2>>)

create_connection(conns, user1, user2) ==
    get_or_create(conns, canonical(user1, user2))

\* the lookup with the pair as given, not ordered by id
are_connected_as_given(conns, user1, user2) ==
    conns[<<user1, user2>>] > 0

are_connected(conns, user1, user2) ==
    conns[canonical(user1, user2)] > 0

\* ------------------------------------------------------------------ signals.py
\* the receiver never finding the stored row
track_status_change_unset(reqs, rid) == "NONE"

\* pre_save receiver: the stored status of the row being saved ("NONE": no row)
track_status_change(reqs, rid) ==
    IF rid \in DOMAIN reqs THEN reqs[rid].status ELSE "NONE"

\* transaction.atomic(): the block's writes are kept unless it raised
atomic(before, after, raised) ==
    IF raised THEN before ELSE after

\* the receiver with the second Follow a copy of the first
handle_connection_accepted_one_follow(conns, fols, instance, old_status, fault) ==
    IF instance.status = ACCEPTED /\ old_status # ACCEPTED
    THEN [connections |-> create_connection(conns, instance.sender, instance.recipient),
          follows |-> get_or_create(fols, <<instance.sender, instance.recipient>>),
          raised |-> FALSE]
    ELSE [connections |-> conns, follows |-> fols, raised |-> FALSE]

\* post_save receiver: [connections, follows, raised] after the receiver ran on
\* the saved instance; fault names the statement of the block that raises
handle_connection_accepted(conns, fols, instance, old_status, fault) ==
    IF instance.status = ACCEPTED /\ old_status # ACCEPTED
    THEN LET c1 == create_connection(conns, instance.sender, instance.recipient)
             f1 == get_or_create(fols, <<instance.sender, instance.recipient>>)
             f2 == get_or_create(f1, <<instance.recipient, instance.sender>>)
             written ==
                 CASE fault = "connection" -> [connections |-> conns, follows |-> fols]
                   [] fault = "follow1" -> [connections |-> c1, follows |-> fols]
                   [] fault = "follow2" -> [connections |-> c1, follows |-> f1]
                   [] OTHER -> [connections |-> c1, follows |-> f2]
             kept == atomic([connections |-> conns, follows |-> fols], written,
                            fault # "none")
         IN  [connections |-> kept.connections, follows |-> kept.follows,
              raised |-> fault # "none"]
    ELSE [connections |-> conns, follows |-> fols, raised |-> FALSE]

\* Model.save() of a loaded request whose status was set to status: pre_save,
\* the UPDATE (committed on its own: autocommit), then post_save
save(reqs, conns, fols, rid, status, fault) ==
    LET old_status == track_status_change(reqs, rid)
        stored == [reqs EXCEPT ![rid].status = status]
        h == handle_connection_accepted(conns, fols, stored[rid], old_status, fault)
    IN  [requests |-> stored, connections |-> h.connections, follows |-> h.follows,
         old_status |-> old_status, raised |-> h.raised]

\* ------------------------------------------------------------------ views.py
\* unique_together = ['sender', 'recipient'] of ConnectionRequest
violates_unique(reqs, sender, recipient) ==
    \E i \in DOMAIN reqs : reqs[i].sender = sender /\ reqs[i].recipient = recipient

Newest(S) == CHOOSE i \in S : \A j \in S : j <= i

\* the lookup with the sender's own direction alone
existing_request_one_direction(reqs, user, recipient) ==
    LET live == {i \in DOMAIN reqs :
                    /\ reqs[i].sender = user /\ reqs[i].recipient = recipient
                    /\ reqs[i].status \notin {REJECTED, WITHDRAWN}}
    IN  IF live = {} THEN 0 ELSE Newest(live)

\* the lookup with REJECTED alone excluded
existing_request_withdrawn_live(reqs, user, recipient) ==
    LET live == {i \in DOMAIN reqs :
                    /\ \/ reqs[i].sender = user /\ reqs[i].recipient = recipient
                       \/ reqs[i].sender = recipient /\ reqs[i].recipient = user
                    /\ reqs[i].status # REJECTED}
    IN  IF live = {} THEN 0 ELSE Newest(live)

\* the request between the two users, either direction, that is neither
\* REJECTED nor WITHDRAWN; ordering = ['-created_at'], so first() is the newest.
\* 0: there is none
existing_request(reqs, user, recipient) ==
    LET live == {i \in DOMAIN reqs :
                    /\ \/ reqs[i].sender = user /\ reqs[i].recipient = recipient
                       \/ reqs[i].sender = recipient /\ reqs[i].recipient = user
                    /\ reqs[i].status \notin {REJECTED, WITHDRAWN}}
    IN  IF live = {} THEN 0 ELSE Newest(live)

Response(op, actor, target, action, result, old_status) ==
    [op |-> op, actor |-> actor, target |-> target, action |-> action,
     result |-> result, old_status |-> old_status]

Unchanged == UNCHANGED <<requests, connections, follows>>

\* SendConnectionRequestView.post
SendConnectionRequest(actor, recipient_id, fault) ==
    LET existing == existing_request(requests, actor, recipient_id)
        reply(result, old) == Response("send", actor, recipient_id, "", result, old)
    IN  IF recipient_id \notin Users
        THEN last' = reply("NotFound", "NONE") /\ Unchanged
        ELSE IF recipient_id = actor
        THEN last' = reply("InvalidOperation", "NONE") /\ Unchanged
        ELSE IF are_connected(connections, actor, recipient_id)
        THEN last' = reply("AlreadyConnected", "NONE") /\ Unchanged
        ELSE IF existing # 0 /\ requests[existing].sender = actor
        THEN last' = reply("DuplicateRequest", "NONE") /\ Unchanged
        ELSE IF existing # 0
        THEN LET s == save(requests, connections, follows, existing, ACCEPTED, fault)
             IN  /\ requests' = s.requests
                 /\ connections' = s.connections
                 /\ follows' = s.follows
                 /\ last' = reply(IF s.raised THEN "ServerError" ELSE "Established",
                                  s.old_status)
        ELSE IF violates_unique(requests, actor, recipient_id)
        THEN last' = reply("IntegrityError", "NONE") /\ Unchanged
        ELSE /\ Len(requests) < MaxRequests
             /\ requests' = Append(requests, [sender |-> actor,
                                   recipient |-> recipient_id, status |-> PENDING])
             /\ last' = reply("Created", "NONE")
             /\ UNCHANGED <<connections, follows>>

\* the check with WITHDRAW open to the recipient as well
forbidden_either_party(conn_request, user, action) ==
    IF action = "WITHDRAW"
    THEN conn_request.sender # user /\ conn_request.recipient # user
    ELSE conn_request.recipient # user

\* ConnectionRequestActionView.post, "Validate permissions": the 403 answers
forbidden(conn_request, user, action) ==
    IF action = "WITHDRAW" THEN conn_request.sender # user
    ELSE conn_request.recipient # user

\* ConnectionRequestActionView.post
ActOnRequest(actor, request_id, action, fault) ==
    LET reply(result, old) == Response("act", actor, request_id, action, result, old)
        saved(status) ==
            LET s == save(requests, connections, follows, request_id, status, fault)
            IN  /\ requests' = s.requests
                /\ connections' = s.connections
                /\ follows' = s.follows
                /\ last' = reply(IF s.raised THEN "ServerError" ELSE "OK", s.old_status)
    IN  IF action \notin {"ACCEPT", "REJECT", "WITHDRAW"}
        THEN last' = reply("InvalidAction", "NONE") /\ Unchanged
        ELSE IF request_id \notin DOMAIN requests
        THEN last' = reply("NotFound", "NONE") /\ Unchanged
        ELSE IF forbidden(requests[request_id], actor, action)
        THEN last' = reply("Forbidden", "NONE") /\ Unchanged
        ELSE IF action = "WITHDRAW"
        THEN saved(WITHDRAWN)
        ELSE IF requests[request_id].status # PENDING
        THEN last' = reply("InvalidState", "NONE") /\ Unchanged
        ELSE saved(IF action = "ACCEPT" THEN ACCEPTED ELSE REJECTED)

\* ToggleFollowView.post
ToggleFollow(actor, user_id) ==
    LET reply(result) == Response("follow", actor, user_id, "", result, "NONE")
        key == <<actor, user_id>>
        created == follows[key] = 0
        fetched == get_or_create(follows, key)
    IN  IF user_id \notin Users
        THEN last' = reply("NotFound") /\ Unchanged
        ELSE IF user_id = actor
        THEN last' = reply("InvalidOperation") /\ Unchanged
        ELSE IF ~created
        THEN /\ follows' = [fetched EXCEPT ![key] = @ - 1]
             /\ last' = reply("Unfollowed")
             /\ UNCHANGED <<requests, connections>>
        ELSE /\ follows' = fetched
             /\ last' = reply("Following")
             /\ UNCHANGED <<requests, connections>>

\* FollowUserView.post
FollowUser(actor, user_id) ==
    LET reply(result) ==
            Response("feed_follow", actor, user_id, "", result, "NONE")
        key == <<actor, user_id>>
        created == follows[key] = 0
        fetched == get_or_create(follows, key)
    IN  IF ~IsTeacher(actor)
        THEN last' = reply("Forbidden") /\ Unchanged
        ELSE IF user_id \notin Users
        THEN last' = reply("NotFound") /\ Unchanged
        ELSE IF user_id = actor
        THEN last' = reply("InvalidOperation") /\ Unchanged
        ELSE IF user_type[user_id] # "TEACHER"
        THEN last' = reply("NotTeacher") /\ Unchanged
        ELSE IF ~created
        THEN /\ follows' = [fetched EXCEPT ![key] = @ - 1]
             /\ last' = reply("Unfollowed")
             /\ UNCHANGED <<requests, connections>>
        ELSE /\ follows' = fetched
             /\ last' = reply("Following")
             /\ UNCHANGED <<requests, connections>>

\* the view removing the pair's Follow rows along with the Connection
RemoveConnection_cascade(actor, user_id) ==
    LET reply(result) == Response("remove", actor, user_id, "", result, "NONE")
        key == IF user_id < actor THEN <<user_id, actor>> ELSE <<actor, user_id>>
    IN  IF user_id \notin Users
        THEN last' = reply("NotFound") /\ Unchanged
        ELSE IF connections[key] = 0
        THEN last' = reply("NotConnected") /\ Unchanged
        ELSE /\ connections' = [connections EXCEPT ![key] = @ - 1]
             /\ follows' = [follows EXCEPT ![<<actor, user_id>>] = 0,
                                           ![<<user_id, actor>>] = 0]
             /\ last' = reply("Removed")
             /\ UNCHANGED requests

\* RemoveConnectionView.delete
RemoveConnection(actor, user_id) ==
    LET reply(result) == Response("remove", actor, user_id, "", result, "NONE")
        key == IF user_id < actor THEN <<user_id, actor>> ELSE <<actor, user_id>>
    IN  IF user_id \notin Users
        THEN last' = reply("NotFound") /\ Unchanged
        ELSE IF connections[key] = 0
        THEN last' = reply("NotConnected") /\ Unchanged
        ELSE /\ connections' = [connections EXCEPT ![key] = @ - 1]
             /\ last' = reply("Removed")
             /\ UNCHANGED <<requests, follows>>

\* the view with a Follow row ranked above a PENDING request
RelationshipStatus_following_first(reqs, conns, fols, actor, target) ==
    LET pending(from, to) ==
            \E i \in DOMAIN reqs : /\ reqs[i].sender = from
                                   /\ reqs[i].recipient = to
                                   /\ reqs[i].status = PENDING
    IN  IF are_connected(conns, actor, target) THEN "CONNECTED"
        ELSE IF fols[<<actor, target>>] > 0 THEN "FOLLOWING"
        ELSE IF pending(actor, target) THEN "PENDING_SENT"
        ELSE IF pending(target, actor) THEN "PENDING_RECEIVED"
        ELSE "NONE"

\* RelationshipStatusView.get: the 'status' of the response
RelationshipStatus(reqs, conns, fols, actor, target) ==
    LET pending(from, to) ==
            \E i \in DOMAIN reqs : /\ reqs[i].sender = from
                                   /\ reqs[i].recipient = to
                                   /\ reqs[i].status = PENDING
    IN  IF are_connected(conns, actor, target) THEN "CONNECTED"
        ELSE IF pending(actor, target) THEN "PENDING_SENT"
        ELSE IF pending(target, actor) THEN "PENDING_RECEIVED"
        ELSE IF fols[<<actor, target>>] > 0 THEN "FOLLOWING"
        ELSE "NONE"

\* RelationshipStatusView.get: the 'connection_request_id' of the response;
\* 0 stands for None
RelationshipRequestId(reqs, conns, actor, target) ==
    LET pending(from, to) == {i \in DOMAIN reqs : /\ reqs[i].sender = from
                                                  /\ reqs[i].recipient = to
                                                  /\ reqs[i].status = PENDING}
        pending_sent == pending(actor, target)
        pending_received == pending(target, actor)
    IN  IF are_connected(conns, actor, target) THEN 0
        ELSE IF pending_sent # {} THEN Newest(pending_sent)
        ELSE IF pending_received # {} THEN Newest(pending_received)
        ELSE 0

\* ------------------------------------------------------------------ profiles/models.py
PUBLIC == "PUBLIC"
CONNECTIONS_ONLY == "CONNECTIONS_ONLY"
NO_ONE == "NO_ONE"
VisibilityChoice == {PUBLIC, CONNECTIONS_ONLY, NO_ONE}

PrivacyFields == {"who_can_send_connect_request", "who_can_see_connections_list",
                  "who_can_see_posts", "who_can_see_email", "who_can_see_phone"}

\* a UserPrivacySettings row with every field at its default
UserPrivacySettings ==
    [who_can_send_connect_request |-> PUBLIC,
     who_can_see_connections_list |-> CONNECTIONS_ONLY,
     who_can_see_posts |-> PUBLIC,
     who_can_see_email |-> CONNECTIONS_ONLY,
     who_can_see_phone |-> CONNECTIONS_ONLY]

\* the user_privacy_settings table with no row: per user, the set of its rows
NoSettings == [u \in Users |-> {}]

\* the table after UserPrivacySettings.get_or_create_for_user(user)
get_or_create_for_user(rows, user) ==
    IF rows[user] = {} THEN [rows EXCEPT ![user] = {UserPrivacySettings}] ELSE rows

\* the row UserPrivacySettings.get_or_create_for_user(user) returns
settings_for_user(rows, user) ==
    CHOOSE row \in get_or_create_for_user(rows, user)[user] : TRUE

\* the number of fields, over all rows, that are not at their default
Customised(rows) ==
    Cardinality({c \in Users \X PrivacyFields :
                    /\ rows[c[1]] # {}
                    /\ settings_for_user(rows, c[1])[c[2]] # UserPrivacySettings[c[2]]})

\* PrivacySettingsView: the user's own row, created when missing, with one
\* field set
UpdatePrivacy(user, field, value) ==
    LET rows == get_or_create_for_user(privacy, user)
        row == settings_for_user(privacy, user)
    IN  /\ privacy' = [rows EXCEPT ![user] = {[row EXCEPT ![field] = value]}]
        /\ Customised(privacy') <= MaxCustomised
        /\ last' = Response("privacy", user, user, field, value, "NONE")
        /\ UNCHANGED <<requests, connections, follows, procs, match, ranking,
                       badge, user_type>>

\* ------------------------------------------------------------------ permissions.py
\* request.user when no one is logged in (is_authenticated is False)
Anonymous == 0
Viewers == Users \cup {Anonymous}

\* User.id is a UUIDField: request.user.id and target_user.id are UUIDs
UUID(n) == [type |-> "UUID", int |-> n]

\* a key a view or a request did not get
None == [type |-> "NoneType", int |-> 0]

\* the value a route hands the view as kwargs['user_id']: <int:user_id> an
\* int, <uuid:user_id> a UUID.  Every route of the repository that has a
\* user_id declares it <int:user_id>.
Converters == {"int", "uuid"}
to_python(converter, n) ==
    IF converter = "int" THEN [type |-> "int", int |-> n] ELSE UUID(n)
Kwargs == {None} \cup {to_python(c, n) : c \in Converters, n \in UserIds}

\* what a gate answers, and the settings table it leaves
Answer(allowed, rows) == [allowed |-> allowed, privacy |-> rows]

\* CanViewConnectionsList.has_permission
CanViewConnectionsList(rows, conns, user, target_user_id) ==
    IF target_user_id = None THEN Answer(TRUE, rows)
    ELSE IF user = Anonymous THEN Answer(FALSE, rows)
    ELSE IF UUID(user) = target_user_id THEN Answer(TRUE, rows)
    ELSE IF target_user_id.int \notin Users THEN Answer(FALSE, rows)
    ELSE LET target_user == target_user_id.int
             setting == settings_for_user(rows, target_user).who_can_see_connections_list
             after == get_or_create_for_user(rows, target_user)
         IN  IF setting = PUBLIC THEN Answer(TRUE, after)
             ELSE IF setting = CONNECTIONS_ONLY
             THEN Answer(are_connected(conns, user, target_user), after)
             ELSE Answer(FALSE, after)

Methods == {"POST", "GET"}
RecipientIds == {0} \cup UserIds

\* CONNECTIONS_ONLY taken at its word: only a connected sender may ask
CanSendConnectionRequest_connected_only(rows, method, user, recipient_id) ==
    IF method # "POST" THEN Answer(TRUE, rows)
    ELSE IF recipient_id = 0 THEN Answer(TRUE, rows)
    ELSE IF user = Anonymous THEN Answer(FALSE, rows)
    ELSE IF recipient_id \notin Users THEN Answer(TRUE, rows)
    ELSE LET setting == settings_for_user(rows, recipient_id).who_can_send_connect_request
             after == get_or_create_for_user(rows, recipient_id)
         IN  IF setting = PUBLIC THEN Answer(TRUE, after)
             ELSE IF setting = CONNECTIONS_ONLY
             THEN Answer(are_connected(connections, user, recipient_id), after)
             ELSE Answer(FALSE, after)

\* CanSendConnectionRequest.has_permission; recipient_id 0 is a request
\* without one
CanSendConnectionRequest(rows, method, user, recipient_id) ==
    IF method # "POST" THEN Answer(TRUE, rows)
    ELSE IF recipient_id = 0 THEN Answer(TRUE, rows)
    ELSE IF user = Anonymous THEN Answer(FALSE, rows)
    ELSE IF recipient_id \notin Users THEN Answer(TRUE, rows)
    ELSE LET setting == settings_for_user(rows, recipient_id).who_can_send_connect_request
             after == get_or_create_for_user(rows, recipient_id)
         IN  IF setting = PUBLIC THEN Answer(TRUE, after)
             ELSE IF setting = CONNECTIONS_ONLY THEN Answer(TRUE, after)
             ELSE Answer(FALSE, after)

\* CanViewEmail.check_visibility
CanViewEmail(rows, conns, user, target_user) ==
    IF user = Anonymous THEN Answer(FALSE, rows)
    ELSE IF UUID(user) = UUID(target_user) THEN Answer(TRUE, rows)
    ELSE LET setting == settings_for_user(rows, target_user).who_can_see_email
             after == get_or_create_for_user(rows, target_user)
         IN  IF setting = PUBLIC THEN Answer(TRUE, after)
             ELSE IF setting = CONNECTIONS_ONLY
             THEN Answer(are_connected(conns, user, target_user), after)
             ELSE Answer(FALSE, after)

\* CanViewPosts.check_visibility
CanViewPosts(rows, conns, user, target_user) ==
    IF user = Anonymous THEN Answer(FALSE, rows)
    ELSE IF UUID(user) = UUID(target_user) THEN Answer(TRUE, rows)
    ELSE LET setting == settings_for_user(rows, target_user).who_can_see_posts
             after == get_or_create_for_user(rows, target_user)
         IN  IF setting = PUBLIC THEN Answer(TRUE, after)
             ELSE IF setting = CONNECTIONS_ONLY
             THEN Answer(are_connected(conns, user, target_user), after)
             ELSE Answer(FALSE, after)

\* canViewPhone as the specification words it: the pattern of the other
\* gates over who_can_see_phone.  permissions.py has no such class.
CanViewPhone(rows, conns, user, target_user) ==
    IF user = Anonymous THEN Answer(FALSE, rows)
    ELSE IF user = target_user THEN Answer(TRUE, rows)
    ELSE LET setting == settings_for_user(rows, target_user).who_can_see_phone
             after == get_or_create_for_user(rows, target_user)
         IN  IF setting = PUBLIC THEN Answer(TRUE, after)
             ELSE IF setting = CONNECTIONS_ONLY
             THEN Answer(are_connected(conns, user, target_user), after)
             ELSE Answer(FALSE, after)

\* a gate asked: its answer is the response, the settings row it created stays
Gate(op, user, target, how, answer) ==
    /\ privacy' = answer.privacy
    /\ last' = Response(op, user, target, how,
                        IF answer.allowed THEN "Allowed" ELSE "Denied", "NONE")
    /\ UNCHANGED <<requests, connections, follows, procs, match, ranking,
                       badge, user_type>>

\* ------------------------------------------------------------------ jobs/utils.py
\* a str, as the tuple of its characters
ANY == <<"A", "N", "Y">>
GRADUATE == <<"G", "R", "A", "D", "U", "A", "T", "E">>
B_ED == <<"B", "_", "E", "D">>
NTT == <<"N", "T", "T">>
D_ED == <<"D", "_", "E", "D">>
POST_GRADUATE == <<"P", "O", "S", "T", "_", "G", "R", "A", "D", "U", "A", "T", "E">>
M_ED == <<"M", "_", "E", "D">>
M_PHIL == <<"M", "_", "P", "H", "I", "L">>
PHD == <<"P", "H", "D">>

qualification_hierarchy ==
    [k \in {ANY, GRADUATE, B_ED, NTT, D_ED, POST_GRADUATE, M_ED, M_PHIL, PHD} |->
        CASE k = ANY -> 0
          [] k = GRADUATE -> 1
          [] k \in {B_ED, NTT, D_ED} -> 2
          [] k = POST_GRADUATE -> 3
          [] k = M_ED -> 4
          [] k = M_PHIL -> 5
          [] k = PHD -> 6]

\* dict.get(key, 0)
get(dict, key) == IF key \in DOMAIN dict THEN dict[key] ELSE 0

Lowercase == <<"a", "b", "c", "d", "e", "f", "g", "h", "i", "j", "k", "l", "m",
               "n", "o", "p", "q", "r", "s", "t", "u", "v", "w", "x", "y", "z">>
Uppercase == <<"A", "B", "C", "D", "E", "F", "G", "H", "I", "J", "K", "L", "M",
               "N", "O", "P", "Q", "R", "S", "T", "U", "V", "W", "X", "Y", "Z">>

\* str.upper()
upper(str) ==
    [i \in DOMAIN str |->
        IF \E n \in DOMAIN Lowercase : Lowercase[n] = str[i]
        THEN Uppercase[CHOOSE n \in DOMAIN Lowercase : Lowercase[n] = str[i]]
        ELSE str[i]]

\* str.replace(old, new) for a one-character old
replace(str, old, new) == [i \in DOMAIN str |-> IF str[i] = old THEN new ELSE str[i]]

\* qual.upper().replace('.', '_').replace(' ', '_')
qual_key(qual) == replace(replace(upper(qual), ".", "_"), " ", "_")

\* set(list)
set(list) == {list[i] : i \in DOMAIN list}

\* a or b, for lists and strs
or(a, b) == IF a # <<>> THEN a ELSE b

max(a, b) == IF a >= b THEN a ELSE b
min(a, b) == IF a <= b THEN a ELSE b

\* max of highest_level over the loop on educator_quals, from index i on
RECURSIVE highest_level(_, _, _)
highest_level(educator_quals, i, highest) ==
    IF i > Len(educator_quals) THEN highest
    ELSE highest_level(educator_quals, i + 1,
            max(highest, get(qualification_hierarchy, qual_key(educator_quals[i]))))

\* the share taken of the educator's subjects instead of the job's
subject_match_of_educator(job, educator_profile) ==
    LET job_subjects == set(or(job.subject_specialization, job.required_subjects))
        edu_subjects == set(or(educator_profile.expert_subjects,
                               educator_profile.subjects))
        matching_subjects == job_subjects \cap edu_subjects
    IN  IF job_subjects # {} /\ edu_subjects # {}
        THEN IF matching_subjects # {}
             THEN (40 * Cardinality(matching_subjects)) \div Cardinality(edu_subjects)
             ELSE 0
        ELSE 40

\* calculate_match_score: what the subject block adds to score
subject_match(job, educator_profile) ==
    LET job_subjects == set(or(job.subject_specialization, job.required_subjects))
        edu_subjects == set(or(educator_profile.expert_subjects,
                               educator_profile.subjects))
        matching_subjects == job_subjects \cap edu_subjects
    IN  IF job_subjects # {} /\ edu_subjects # {}
        THEN IF matching_subjects # {}
             THEN (40 * Cardinality(matching_subjects)) \div Cardinality(job_subjects)
             ELSE 0
        ELSE 40

\* an educator without boards given nothing against a board requirement
board_match_no_partial(job, educator_profile) ==
    LET job_boards == set(job.required_board_experience)
        edu_boards == set(educator_profile.boards)
    IN  IF job_boards # {}
        THEN IF job_boards \cap edu_boards # {} THEN 20 ELSE 0
        ELSE 20

\* calculate_match_score: what the board block adds to score
board_match(job, educator_profile) ==
    LET job_boards == set(job.required_board_experience)
        edu_boards == set(educator_profile.boards)
    IN  IF job_boards # {}
        THEN IF job_boards \cap edu_boards # {} THEN 20
             ELSE IF edu_boards = {} THEN 10
             ELSE 0
        ELSE 20

\* the ratio of years taken without the test for enough years and without
\* the cut at 1.0
experience_match_uncapped(job, educator_profile) ==
    IF job.required_experience_years > 0
    THEN (20 * educator_profile.experience_years) \div job.required_experience_years
    ELSE 20

\* the share of the required years rounded up instead of cut
experience_match_rounded_up(job, educator_profile) ==
    LET required_years == job.required_experience_years
        actual_years == educator_profile.experience_years
    IN  IF actual_years >= required_years THEN 20
        ELSE IF required_years > 0
        THEN min((20 * actual_years + required_years - 1) \div required_years, 20)
        ELSE 20

\* calculate_match_score: what the experience block adds to score;
\* int(20 * min(a / r, 1.0)) is 20 * a \div r cut at 20
experience_match(job, educator_profile) ==
    LET required_years == job.required_experience_years
        actual_years == educator_profile.experience_years
    IN  IF actual_years >= required_years THEN 20
        ELSE IF required_years > 0
        THEN min((20 * actual_years) \div required_years, 20)
        ELSE 20

\* the level of the first qualification listed taken for the highest
qualification_match_first(job, educator_profile) ==
    LET required_qual == or(job.min_qualification, ANY)
        educator_quals == educator_profile.qualifications
    IN  IF required_qual = ANY THEN 20
        ELSE IF educator_quals # <<>>
        THEN LET required_level == get(qualification_hierarchy, required_qual)
                 highest == get(qualification_hierarchy, qual_key(educator_quals[1]))
             IN  IF highest >= required_level THEN 20
                 ELSE (20 * highest) \div max(required_level, 1)
        ELSE 0

\* calculate_match_score: what the qualification block adds to score
qualification_match(job, educator_profile) ==
    LET required_qual == or(job.min_qualification, ANY)
        educator_quals == educator_profile.qualifications
    IN  IF required_qual = ANY THEN 20
        ELSE IF educator_quals # <<>>
        THEN LET required_level == get(qualification_hierarchy, required_qual)
                 highest == highest_level(educator_quals, 1, 0)
             IN  IF highest >= required_level THEN 20
                 ELSE (20 * highest) \div max(required_level, 1)
        ELSE 0

\* calculate_match_score
calculate_match_score(job, educator_profile) ==
    min(subject_match(job, educator_profile) + board_match(job, educator_profile)
        + experience_match(job, educator_profile)
        + qualification_match(job, educator_profile), 100)

\* a JobListing and an EducatorProfile with every field at its default
JobListing ==
    [subject_specialization |-> <<>>, required_subjects |-> <<>>,
     required_board_experience |-> <<>>, required_experience_years |-> 0,
     min_qualification |-> ANY]
EducatorProfile ==
    [expert_subjects |-> <<>>, subjects |-> <<>>, boards |-> <<>>,
     experience_years |-> 0, qualifications |-> <<>>]

SUBJECT_CHOICES == <<"Mathematics", "Physics", "Chemistry", "Biology", "English">>
BOARD_CHOICES == <<"CBSE", "ICSE">>
MIN_QUALIFICATION_CHOICES == {<<>>, ANY, B_ED, PHD}
\* qualifications as educators write them: B.A, B.Ed, Post Graduate
QUALIFICATION_CHOICES ==
    <<<<"B", ".", "A">>, <<"B", ".", "E", "d">>,
      <<"P", "o", "s", "t", " ", "G", "r", "a", "d", "u", "a", "t", "e">>>>

\* the lists list[i..j] of at most n elements
Slices(list, n) ==
    {SubSeq(list, i, j) : i \in 1..Len(list), j \in 0..Len(list)} \cap
    UNION {[1..k -> set(list)] : k \in 0..n}

Jobs ==
    [subject_specialization : {SubSeq(SUBJECT_CHOICES, 1, n) : n \in 0..MaxSubjects},
     required_subjects : {<<>>, <<"Physics">>},
     required_board_experience : {<<>>, <<"CBSE">>},
     required_experience_years : 0..MaxYears,
     min_qualification : MIN_QUALIFICATION_CHOICES]

EducatorProfiles ==
    [expert_subjects : Slices(SubSeq(SUBJECT_CHOICES, 1, MaxSubjects + 1), 2)
                       \cup {<<"Mathematics", "Mathematics">>},
     subjects : {<<>>, <<"Physics">>},
     boards : Slices(BOARD_CHOICES, 1),
     experience_years : 0..MaxYears,
     qualifications : Slices(QUALIFICATION_CHOICES, 2)]

\* a job and a profile before calculate_match_score ran on them
NotScored(job, educator_profile) ==
    [job |-> job, educator_profile |-> educator_profile, scored |-> FALSE,
     subject |-> 0, board |-> 0, experience |-> 0, qualification |-> 0,
     score |-> 0]

\* calculate_match_score(job, educator_profile): the amount each block added
\* to score, and the value returned
Calculate ==
    LET job == match.job
        educator_profile == match.educator_profile
    IN  /\ ~match.scored
        /\ match' = [match EXCEPT
              !.scored = TRUE,
              !.subject = subject_match(job, educator_profile),
              !.board = board_match(job, educator_profile),
              !.experience = experience_match(job, educator_profile),
              !.qualification = qualification_match(job, educator_profile),
              !.score = calculate_match_score(job, educator_profile)]
        /\ UNCHANGED <<requests, connections, follows, last, procs, privacy,
                       ranking, badge, user_type>>

\* the thresholds taken as strict: a score on a threshold gets the lower tier
get_match_badge_strict(score) ==
    IF score > 90 THEN [text |-> "Excellent Match", color |-> "green"]
    ELSE IF score > 75 THEN [text |-> "Great Match", color |-> "blue"]
    ELSE IF score > 60 THEN [text |-> "Good Match", color |-> "yellow"]
    ELSE IF score > 40 THEN [text |-> "Partial Match", color |-> "orange"]
    ELSE [text |-> "Low Match", color |-> "gray"]

\* get_match_badge: the text and the color of the badge
get_match_badge(score) ==
    IF score >= 90 THEN [text |-> "Excellent Match", color |-> "green"]
    ELSE IF score >= 75 THEN [text |-> "Great Match", color |-> "blue"]
    ELSE IF score >= 60 THEN [text |-> "Good Match", color |-> "yellow"]
    ELSE IF score >= 40 THEN [text |-> "Partial Match", color |-> "orange"]
    ELSE [text |-> "Low Match", color |-> "gray"]

\* the results list after the loop over jobs_queryset: one dict per job, in
\* the order of the queryset; a job row is known by its place in the queryset
RECURSIVE append_results(_, _, _)
append_results(jobs_queryset, educator_profile, n) ==
    IF n = 0 THEN <<>>
    ELSE LET score == calculate_match_score(jobs_queryset[n], educator_profile)
         IN  Append(append_results(jobs_queryset, educator_profile, n - 1),
                    [job |-> [pk |-> n, row |-> jobs_queryset[n]],
                     match_score |-> score,
                     match_badge |-> get_match_badge(score)])

\* a list sorted by descending match_score with x put in after every entry
\* whose score is at least its own
insort(sorted, x) ==
    LET k == Cardinality({i \in DOMAIN sorted :
                             sorted[i].match_score >= x.match_score})
    IN  SubSeq(sorted, 1, k) \o <<x>> \o SubSeq(sorted, k + 1, Len(sorted))

\* the first n entries of results sorted ascending, ties in list order
RECURSIVE sort_ascending(_, _)
sort_ascending(results, n) ==
    IF n = 0 THEN <<>>
    ELSE LET sorted == sort_ascending(results, n - 1)
             x == results[n]
             k == Cardinality({i \in DOMAIN sorted :
                                  sorted[i].match_score <= x.match_score})
         IN  SubSeq(sorted, 1, k) \o <<x>> \o SubSeq(sorted, k + 1, Len(sorted))

\* sorted ascending and then reversed, which turns ties around
sort_then_reverse(results, n) ==
    LET ascending == sort_ascending(results, n)
    IN  [i \in 1..n |-> ascending[n + 1 - i]]

\* results.sort(key=match_score, reverse=True) over the first n entries:
\* descending and stable
RECURSIVE sort(_, _)
sort(results, n) ==
    IF n = 0 THEN <<>> ELSE insort(sort(results, n - 1), results[n])

\* get_jobs_with_match_scores
get_jobs_with_match_scores(jobs_queryset, educator_profile) ==
    LET results == append_results(jobs_queryset, educator_profile,
                                  Len(jobs_queryset))
    IN  sort(results, Len(results))

\* job rows and educator profiles that differ in subjects and years only
RankedJobs ==
    {job \in Jobs : /\ job.required_subjects = <<>>
                    /\ job.required_board_experience = <<>>
                    /\ job.min_qualification = ANY}
RankedProfiles ==
    {profile \in EducatorProfiles :
        /\ Len(profile.expert_subjects) <= 1
        /\ profile.subjects = <<>> /\ profile.boards = <<>>
        /\ profile.qualifications = <<>>}
Querysets == UNION {[1..n -> RankedJobs] : n \in 0..MaxJobs}

\* a queryset and a profile before get_jobs_with_match_scores ran on them
NotRanked(jobs_queryset, educator_profile) ==
    [jobs_queryset |-> jobs_queryset, educator_profile |-> educator_profile,
     ranked |-> FALSE, results |-> <<>>]

\* get_jobs_with_match_scores(jobs_queryset, educator_profile)
Rank ==
    /\ ~ranking.ranked
    /\ ranking' = [ranking EXCEPT
          !.ranked = TRUE,
          !.results = get_jobs_with_match_scores(ranking.jobs_queryset,
                                                 ranking.educator_profile)]
    /\ UNCHANGED <<requests, connections, follows, last, procs, privacy, match,
                   badge, user_type>>

\* the scores calculate_match_score can return
Scores == 0..100

\* a score before get_match_badge ran on it
NoBadge(score) == [score |-> score, given |-> FALSE, text |-> "", color |-> ""]

\* get_match_badge(score)
Badge ==
    /\ ~badge.given
    /\ badge' = [badge EXCEPT !.given = TRUE,
                              !.text = get_match_badge(badge.score).text,
                              !.color = get_match_badge(badge.score).color]
    /\ UNCHANGED <<requests, connections, follows, last, procs, privacy, match,
                   ranking, user_type>>

\* ------------------------------------------------------------------ workers
\* a worker between two requests, holding its last response
Idle(op, actor, target, action, result, old_status) ==
    [pc |-> "idle", op |-> op, actor |-> actor, target |-> target,
     action |-> action, result |-> result, old_status |-> old_status,
     rid |-> 0, status |-> ""]

\* a worker inside a handler, at statement pc, holding request rid with the
\* status it assigned to the instance
Busy(pc, op, actor, target, action, rid, status, old_status) ==
    [pc |-> pc, op |-> op, actor |-> actor, target |-> target,
     action |-> action, result |-> "", old_status |-> old_status,
     rid |-> rid, status |-> status]

\* SendConnectionRequestView.post up to the are_connected check
SendLookup(p, actor, recipient_id) ==
    LET answer(result) == Idle("send", actor, recipient_id, "", result, "NONE")
    IN  /\ procs[p].pc = "idle"
        /\ procs' = [procs EXCEPT ![p] =
              IF recipient_id \notin Users THEN answer("NotFound")
              ELSE IF recipient_id = actor THEN answer("InvalidOperation")
              ELSE IF are_connected(connections, actor, recipient_id)
              THEN answer("AlreadyConnected")
              ELSE Busy("existing", "send", actor, recipient_id, "", 0, "", "NONE")]
        /\ UNCHANGED <<requests, connections, follows, last>>

\* the query for an existing request and the branch taken on its answer
SendExisting(p) ==
    LET w == procs[p]
        existing == existing_request(requests, w.actor, w.target)
    IN  /\ w.pc = "existing"
        /\ procs' = [procs EXCEPT ![p] =
              IF existing # 0 /\ requests[existing].sender = w.actor
              THEN Idle("send", w.actor, w.target, "", "DuplicateRequest", "NONE")
              ELSE IF existing # 0
              THEN Busy("pre_save", "send", w.actor, w.target, "", existing,
                        ACCEPTED, "NONE")
              ELSE Busy("create", "send", w.actor, w.target, "", 0, "", "NONE")]
        /\ UNCHANGED <<requests, connections, follows, last>>

\* ConnectionRequest.objects.create: the INSERT
SendCreate(p) ==
    LET w == procs[p]
    IN  /\ w.pc = "create"
        /\ IF violates_unique(requests, w.actor, w.target)
           THEN /\ procs' = [procs EXCEPT ![p] =
                       Idle("send", w.actor, w.target, "", "IntegrityError", "NONE")]
                /\ UNCHANGED requests
           ELSE /\ Len(requests) < MaxRequests
                /\ requests' = Append(requests, [sender |-> w.actor,
                                      recipient |-> w.target, status |-> PENDING])
                /\ procs' = [procs EXCEPT ![p] =
                       Idle("send", w.actor, w.target, "", "Created", "NONE")]
        /\ UNCHANGED <<connections, follows, last>>

\* ConnectionRequestActionView.post up to the assignment of the new status
ActLoad(p, actor, request_id, action) ==
    LET answer(result) == Idle("act", actor, request_id, action, result, "NONE")
        assign(status) == Busy("pre_save", "act", actor, request_id, action,
                               request_id, status, "NONE")
    IN  /\ procs[p].pc = "idle"
        /\ procs' = [procs EXCEPT ![p] =
              IF action \notin {"ACCEPT", "REJECT", "WITHDRAW"}
              THEN answer("InvalidAction")
              ELSE IF request_id \notin DOMAIN requests THEN answer("NotFound")
              ELSE IF forbidden(requests[request_id], actor, action)
              THEN answer("Forbidden")
              ELSE IF action = "WITHDRAW" THEN assign(WITHDRAWN)
              ELSE IF requests[request_id].status # PENDING
              THEN answer("InvalidState")
              ELSE assign(IF action = "ACCEPT" THEN ACCEPTED ELSE REJECTED)]
        /\ UNCHANGED <<requests, connections, follows, last>>

\* Model.save(): the pre_save receiver's query
PreSave(p) ==
    LET w == procs[p]
    IN  /\ w.pc = "pre_save"
        /\ procs' = [procs EXCEPT ![p] =
              Busy("update", w.op, w.actor, w.target, w.action, w.rid, w.status,
                   track_status_change(requests, w.rid))]
        /\ UNCHANGED <<requests, connections, follows, last>>

\* Model.save(): the UPDATE of the row from the instance in memory
Update(p) ==
    LET w == procs[p]
    IN  /\ w.pc = "update"
        /\ requests' = [requests EXCEPT ![w.rid].status = w.status]
        /\ procs' = [procs EXCEPT ![p].pc = "post_save"]
        /\ UNCHANGED <<connections, follows, last>>

\* Model.save(): the post_save receiver, and the handler's response
PostSave(p) ==
    LET w == procs[p]
        instance == [requests[w.rid] EXCEPT !.status = w.status]
        h == handle_connection_accepted(connections, follows, instance,
                                        w.old_status, "none")
    IN  /\ w.pc = "post_save"
        /\ connections' = h.connections
        /\ follows' = h.follows
        /\ procs' = [procs EXCEPT ![p] =
              Idle(w.op, w.actor, w.target, w.action,
                   IF w.op = "send" THEN "Established" ELSE "OK", w.old_status)]
        /\ UNCHANGED <<requests, last>>

\* ------------------------------------------------------------------ behaviours
RequestIds == 1..(Len(requests) + 1)

Init ==
    /\ requests = <<>>
    /\ connections = EmptyTable
    /\ follows = EmptyTable
    /\ last = Response("init", MissingUser, MissingUser, "", "", "NONE")
    /\ procs = [p \in Procs |->
                  Idle("init", MissingUser, MissingUser, "", "", "NONE")]
    /\ privacy = NoSettings
    /\ match = NotScored(JobListing, EducatorProfile)
    /\ ranking = NotRanked(<<>>, EducatorProfile)
    /\ badge = NoBadge(0)
    /\ user_type = [u \in Users |-> EDUCATOR]

Send == /\ \E actor \in Users, recipient_id \in UserIds :
              SendConnectionRequest(actor, recipient_id, "none")
        /\ UNCHANGED <<procs, privacy, match, ranking, badge, user_type>>

Act == /\ \E actor \in Users, request_id \in RequestIds, action \in Actions :
             ActOnRequest(actor, request_id, action, "none")
       /\ UNCHANGED <<procs, privacy, match, ranking, badge, user_type>>

Follow == /\ \E actor \in Users, user_id \in UserIds : ToggleFollow(actor, user_id)
          /\ UNCHANGED <<procs, privacy, match, ranking, badge, user_type>>

Remove == /\ \E actor \in Users, user_id \in UserIds : RemoveConnection(actor, user_id)
          /\ UNCHANGED <<procs, privacy, match, ranking, badge, user_type>>

Next == Send \/ Act \/ Follow \/ Remove

\* the handlers, one request at a time, the store never failing
Spec == Init /\ [][Next]_vars

SendFault == /\ \E actor \in Users, recipient_id \in UserIds, fault \in FaultPoints :
                   SendConnectionRequest(actor, recipient_id, fault)
             /\ UNCHANGED <<procs, privacy, match, ranking, badge, user_type>>

ActFault == /\ \E actor \in Users, request_id \in RequestIds, action \in Actions,
                  fault \in FaultPoints :
                   ActOnRequest(actor, request_id, action, fault)
            /\ UNCHANGED <<procs, privacy, match, ranking, badge, user_type>>

NextFault == Next \/ SendFault \/ ActFault

\* the same, and a statement of the post_save receiver may raise
SpecFault == Init /\ [][NextFault]_vars

NextConc ==
    /\ \E p \in Procs :
        \/ \E actor \in Users, recipient_id \in UserIds :
              SendLookup(p, actor, recipient_id)
        \/ SendExisting(p)
        \/ SendCreate(p)
        \/ \E actor \in Users, request_id \in RequestIds, action \in Actions :
              ActLoad(p, actor, request_id, action)
        \/ PreSave(p)
        \/ Update(p)
        \/ PostSave(p)
    /\ UNCHANGED <<privacy, match, ranking, badge, user_type>>

\* send and act requests served by the workers side by side, a statement at a
\* time
SpecConc == Init /\ [][NextConc]_vars

\* the graph after user 1 sent to user 2 and user 2 accepted
InitConnected ==
    /\ requests = <<[sender |-> 1, recipient |-> 2, status |-> ACCEPTED]>>
    /\ connections = [EmptyTable EXCEPT ![<<1, 2>>] = 1]
    /\ follows = [EmptyTable EXCEPT ![<<1, 2>>] = 1, ![<<2, 1>>] = 1]

InitPrivacy ==
    /\ \/ InitConnected
       \/ requests = <<>> /\ connections = EmptyTable /\ follows = EmptyTable
    /\ last = Response("init", MissingUser, MissingUser, "", "", "NONE")
    /\ procs = [p \in Procs |->
                  Idle("init", MissingUser, MissingUser, "", "", "NONE")]
    /\ privacy = NoSettings
    /\ match = NotScored(JobListing, EducatorProfile)
    /\ ranking = NotRanked(<<>>, EducatorProfile)
    /\ badge = NoBadge(0)
    /\ user_type = [u \in Users |-> EDUCATOR]

Settings == \E user \in Users, field \in PrivacyFields, value \in VisibilityChoice :
                UpdatePrivacy(user, field, value)

ConnectionsList ==
    \E user \in Viewers, target_user_id \in Kwargs :
        Gate("canViewConnectionsList", user, target_user_id.int, target_user_id.type,
             CanViewConnectionsList(privacy, connections, user, target_user_id))

SendGate ==
    \E user \in Viewers, method \in Methods, recipient_id \in RecipientIds :
        Gate("canSendConnectionRequest", user, recipient_id, method,
             CanSendConnectionRequest(privacy, method, user, recipient_id))

Email == \E user \in Viewers, target_user \in Users :
            Gate("canViewEmail", user, target_user, "",
                 CanViewEmail(privacy, connections, user, target_user))

Posts == \E user \in Viewers, target_user \in Users :
            Gate("canViewPosts", user, target_user, "",
                 CanViewPosts(privacy, connections, user, target_user))

Phone == \E user \in Viewers, target_user \in Users :
            Gate("canViewPhone", user, target_user, "",
                 CanViewPhone(privacy, connections, user, target_user))

NextPrivacy ==
    Remove \/ Settings \/ ConnectionsList \/ SendGate \/ Email \/ Posts \/ Phone

\* the privacy gates asked while settings change and a connection is removed
SpecPrivacy == InitPrivacy /\ [][NextPrivacy]_vars

InitScore ==
    /\ requests = <<>>
    /\ connections = EmptyTable
    /\ follows = EmptyTable
    /\ last = Response("init", MissingUser, MissingUser, "", "", "NONE")
    /\ procs = [p \in Procs |->
                  Idle("init", MissingUser, MissingUser, "", "", "NONE")]
    /\ privacy = NoSettings
    /\ \E job \in Jobs, educator_profile \in EducatorProfiles :
          match = NotScored(job, educator_profile)
    /\ ranking = NotRanked(<<>>, EducatorProfile)
    /\ badge = NoBadge(0)
    /\ user_type = [u \in Users |-> EDUCATOR]

NextScore == Calculate

\* calculate_match_score applied to a job and an educator profile
SpecScore == InitScore /\ [][NextScore]_vars

InitRank ==
    /\ requests = <<>>
    /\ connections = EmptyTable
    /\ follows = EmptyTable
    /\ last = Response("init", MissingUser, MissingUser, "", "", "NONE")
    /\ procs = [p \in Procs |->
                  Idle("init", MissingUser, MissingUser, "", "", "NONE")]
    /\ privacy = NoSettings
    /\ match = NotScored(JobListing, EducatorProfile)
    /\ \E jobs_queryset \in Querysets, educator_profile \in RankedProfiles :
          ranking = NotRanked(jobs_queryset, educator_profile)
    /\ badge = NoBadge(0)
    /\ user_type = [u \in Users |-> EDUCATOR]

NextRank == Rank

\* get_jobs_with_match_scores applied to a queryset and an educator profile
SpecRank == InitRank /\ [][NextRank]_vars

InitBadge ==
    /\ requests = <<>>
    /\ connections = EmptyTable
    /\ follows = EmptyTable
    /\ last = Response("init", MissingUser, MissingUser, "", "", "NONE")
    /\ procs = [p \in Procs |->
                  Idle("init", MissingUser, MissingUser, "", "", "NONE")]
    /\ privacy = NoSettings
    /\ match = NotScored(JobListing, EducatorProfile)
    /\ ranking = NotRanked(<<>>, EducatorProfile)
    /\ \E score \in Scores : badge = NoBadge(score)
    /\ user_type = [u \in Users |-> EDUCATOR]

NextBadge == Badge

\* get_match_badge applied to a score
SpecBadge == InitBadge /\ [][NextBadge]_vars

SendSetting ==
    \E user \in Users, value \in VisibilityChoice :
        UpdatePrivacy(user, "who_can_send_connect_request", value)

NextSend == Send \/ Act \/ SendSetting

\* connection requests sent and acted on while users set who may send them
\* one
SpecSend == Init /\ [][NextSend]_vars

\* the users registered with any stored user type, nothing else yet
InitFollow ==
    /\ requests = <<>>
    /\ connections = EmptyTable
    /\ follows = EmptyTable
    /\ last = Response("init", MissingUser, MissingUser, "", "", "NONE")
    /\ procs = [p \in Procs |->
                  Idle("init", MissingUser, MissingUser, "", "", "NONE")]
    /\ privacy = NoSettings
    /\ match = NotScored(JobListing, EducatorProfile)
    /\ ranking = NotRanked(<<>>, EducatorProfile)
    /\ badge = NoBadge(0)
    /\ user_type \in [Users -> StoredUserTypes]

FeedFollow == /\ \E actor \in Users, user_id \in UserIds : FollowUser(actor, user_id)
              /\ UNCHANGED <<procs, privacy, match, ranking, badge, user_type>>

NextFollow == Send \/ Act \/ Follow \/ FeedFollow

\* the three ways a Follow row is written, between users of any type
SpecFollow == InitFollow /\ [][NextFollow]_vars

\* ------------------------------------------------------------------ properties
Live(status) == status \notin {REJECTED, WITHDRAWN}

Between(r, a, b) ==
    \/ r.sender = a /\ r.recipient = b
    \/ r.sender = b /\ r.recipient = a

\* the pair of a request has its Connection row, stored lower id first, and
\* both Follow rows
Established(r) ==
    LET lo == IF r.sender < r.recipient THEN r.sender ELSE r.recipient
        hi == IF r.sender < r.recipient THEN r.recipient ELSE r.sender
    IN  /\ connections[<<lo, hi>>] = 1
        /\ connections[<<hi, lo>>] = 0
        /\ follows[<<r.sender, r.recipient>>] >= 1
        /\ follows[<<r.recipient, r.sender>>] >= 1

\* C1: every Connection row has user_a below user_b, and a pair of users has
\* at most one Connection row, whoever sent the request that was accepted.
C1_CanonicalOrdering ==
    /\ \A p \in Pairs : connections[p] > 0 => p[1] < p[2]
    /\ \A a, b \in Users :
          a # b => connections[<<a, b>>] + connections[<<b, a>>] <= 1

\* a Connection that came from a request of the higher id to the lower
C1_Witness ==
    \E i \in DOMAIN requests :
        /\ requests[i].status = ACCEPTED
        /\ requests[i].sender > requests[i].recipient
        /\ connections[<<requests[i].recipient, requests[i].sender>>] = 1

\* C2: an ACCEPT is all or nothing: a request that the ACCEPT just handled
\* left stored as ACCEPTED has its Connection and both its Follow rows.
C2_AcceptAllOrNothing ==
    ( /\ last.op = "act"
      /\ last.action = "ACCEPT"
      /\ last.target \in DOMAIN requests
      /\ last.old_status = PENDING
      /\ requests[last.target].status = ACCEPTED )
    => Established(requests[last.target])

\* C3: after the recipient's successful ACCEPT of a PENDING request the
\* request is ACCEPTED, the pair has its canonical Connection and both Follow
\* rows, and the status of the sender with the recipient is CONNECTED.
C3_AcceptEstablishes ==
    (last.op = "act" /\ last.action = "ACCEPT" /\ last.result = "OK")
    => /\ last.target \in DOMAIN requests
       /\ LET r == requests[last.target]
          IN  /\ r.recipient = last.actor
              /\ r.status = ACCEPTED
              /\ Established(r)
              /\ RelationshipStatus(requests, connections, follows,
                                    r.sender, r.recipient) = "CONNECTED"

C3_Witness ==
    /\ last.op = "act" /\ last.action = "ACCEPT" /\ last.result = "OK"
    /\ last.old_status = PENDING

\* C4: when A has a PENDING request to B and B sends a request to A, no row
\* is added, A's request becomes ACCEPTED, the pair is connected and the
\* status is CONNECTED in both directions.
C4_MutualPendingCollapse ==
    [][\A i \in DOMAIN requests :
         ( /\ requests[i].status = PENDING
           /\ last'.op = "send"
           /\ last'.actor = requests[i].recipient
           /\ last'.target = requests[i].sender )
         => /\ Len(requests') = Len(requests)
            /\ requests'[i].status = ACCEPTED
            /\ connections'[canonical(last'.actor, last'.target)] = 1
            /\ RelationshipStatus(requests', connections', follows',
                                  last'.actor, last'.target) = "CONNECTED"
            /\ RelationshipStatus(requests', connections', follows',
                                  last'.target, last'.actor) = "CONNECTED"]_vars

C4_Witness ==
    /\ last.op = "send" /\ last.result = "Established"
    /\ last.old_status = PENDING
    /\ \E i \in DOMAIN requests :
          /\ requests[i].sender = last.target
          /\ requests[i].recipient = last.actor
          /\ requests[i].status = ACCEPTED

\* C5: whenever a send answers "connection established", the sender and the
\* recipient have a Connection row.
C5_EstablishedMeansConnected ==
    (last.op = "send" /\ last.result = "Established")
    => connections[canonical(last.actor, last.target)] >= 1

\* C6: with no Connection and every request between S and R rejected or
\* withdrawn, a send from S to R creates a new PENDING request S -> R.
C6_ResendAfterTerminal ==
    [][\A s, r \in Users :
         ( /\ s # r
           /\ connections[canonical(s, r)] = 0
           /\ \A i \in DOMAIN requests :
                 Between(requests[i], s, r) => ~Live(requests[i].status)
           /\ last'.op = "send" /\ last'.actor = s /\ last'.target = r )
         => /\ last'.result = "Created"
            /\ requests' = Append(requests,
                   [sender |-> s, recipient |-> r, status |-> PENDING])]_vars

\* C7: an ordered (sender, recipient) pair has at most one request that is
\* neither REJECTED nor WITHDRAWN, and two users have at most one PENDING
\* request between them, both directions counted.
C7_OneLiveRequest ==
    \A i, j \in DOMAIN requests :
        i # j =>
          /\ ~( /\ requests[i].sender = requests[j].sender
                /\ requests[i].recipient = requests[j].recipient
                /\ Live(requests[i].status) /\ Live(requests[j].status) )
          /\ ~( /\ Between(requests[i], requests[j].sender, requests[j].recipient)
                /\ requests[i].status = PENDING /\ requests[j].status = PENDING )

\* two rows between the same two users, one of them PENDING
C7_Witness ==
    \E i, j \in DOMAIN requests :
        /\ i # j
        /\ Between(requests[i], requests[j].sender, requests[j].recipient)
        /\ requests[i].status = PENDING

\* C8: sends for the same two users that race converge: none is answered
\* with a duplicate-key error by a row that is still live, the two users have
\* at most one PENDING request between them, and no Connection or Follow row
\* is stored twice.
C8_ConcurrentSendsConverge ==
    /\ \A p \in Procs :
          (procs[p].op = "send" /\ procs[p].result = "IntegrityError")
          => \A i \in DOMAIN requests :
                ( /\ requests[i].sender = procs[p].actor
                  /\ requests[i].recipient = procs[p].target )
                => ~Live(requests[i].status)
    /\ \A i, j \in DOMAIN requests :
          ( /\ i # j
            /\ Between(requests[i], requests[j].sender, requests[j].recipient) )
          => ~(requests[i].status = PENDING /\ requests[j].status = PENDING)
    /\ \A k \in Pairs : connections[k] <= 1 /\ follows[k] <= 1

\* C9: a WITHDRAW by anyone but the sender, and an ACCEPT or REJECT by anyone
\* but the recipient, is answered Forbidden and leaves every request,
\* Connection and Follow row as it was.
C9_ActAuthorization ==
    [][( /\ last'.op = "act"
         /\ last'.target \in DOMAIN requests
         /\ \/ /\ last'.action = "WITHDRAW"
               /\ requests[last'.target].sender # last'.actor
            \/ /\ last'.action \in {"ACCEPT", "REJECT"}
               /\ requests[last'.target].recipient # last'.actor )
       => /\ last'.result = "Forbidden"
          /\ requests' = requests
          /\ connections' = connections
          /\ follows' = follows]_vars

\* the recipient's WITHDRAW of a PENDING request was refused
C9_Witness ==
    /\ last.op = "act" /\ last.action = "WITHDRAW" /\ last.result = "Forbidden"
    /\ last.target \in DOMAIN requests
    /\ requests[last.target].recipient = last.actor
    /\ requests[last.target].status = PENDING

\* C10: a request is created PENDING; its status changes only PENDING ->
\* ACCEPTED (ACCEPT or auto-accept), PENDING -> REJECTED (REJECT) and any ->
\* WITHDRAWN (the sender's WITHDRAW); the recipient's ACCEPT or REJECT of a
\* request that is not PENDING is answered InvalidState, anyone else's is
\* answered Forbidden, and either changes nothing.
C10_StatusTransitions ==
    [][/\ Len(requests') >= Len(requests)
       /\ \A i \in DOMAIN requests' :
            IF i \in DOMAIN requests
            THEN /\ requests'[i].sender = requests[i].sender
                 /\ requests'[i].recipient = requests[i].recipient
                 /\ requests'[i].status # requests[i].status =>
                      \/ /\ requests[i].status = PENDING
                         /\ requests'[i].status = ACCEPTED
                         /\ \/ last'.op = "act" /\ last'.action = "ACCEPT"
                            \/ last'.op = "send" /\ last'.result = "Established"
                      \/ /\ requests[i].status = PENDING
                         /\ requests'[i].status = REJECTED
                         /\ last'.op = "act" /\ last'.action = "REJECT"
                      \/ /\ requests'[i].status = WITHDRAWN
                         /\ last'.op = "act" /\ last'.action = "WITHDRAW"
                         /\ last'.actor = requests[i].sender
            ELSE requests'[i].status = PENDING
       /\ ( /\ last'.op = "act"
            /\ last'.action \in {"ACCEPT", "REJECT"}
            /\ last'.target \in DOMAIN requests
            /\ requests[last'.target].status # PENDING )
          => /\ last'.result =
                   IF requests[last'.target].recipient = last'.actor
                   THEN "InvalidState" ELSE "Forbidden"
             /\ requests' = requests
             /\ connections' = connections
             /\ follows' = follows]_vars

\* the recipient's ACCEPT of a request already WITHDRAWN was refused
C10_Witness ==
    /\ last.op = "act" /\ last.action = "ACCEPT" /\ last.result = "InvalidState"
    /\ last.target \in DOMAIN requests
    /\ requests[last.target].status = WITHDRAWN


\* C11: a Connection row appears only in a step in which a request between
\* the same two users turns ACCEPTED, and disappears only in a
\* removeConnection step; WITHDRAW, REJECT, toggleFollow and a send without
\* auto-accept leave every Connection row as it was.
C11_ConnectionLifecycle ==
    [][/\ \A k \in Pairs :
            /\ connections'[k] > connections[k] =>
                  \E i \in DOMAIN requests :
                      /\ Between(requests[i], k[1], k[2])
                      /\ requests[i].status # ACCEPTED
                      /\ requests'[i].status = ACCEPTED
            /\ connections'[k] < connections[k] => last'.op = "remove"
       /\ ( \/ last'.op = "follow"
            \/ last'.op = "act" /\ last'.action \in {"WITHDRAW", "REJECT"}
            \/ last'.op = "send" /\ last'.result # "Established" )
          => connections' = connections]_vars

\* the sender withdrew a request that was ACCEPTED, and the pair's Connection
\* is still there
C11_Witness ==
    /\ last.op = "act" /\ last.action = "WITHDRAW" /\ last.result = "OK"
    /\ last.old_status = ACCEPTED
    /\ last.target \in DOMAIN requests
    /\ LET r == requests[last.target]
       IN  connections[IF r.sender < r.recipient THEN <<r.sender, r.recipient>>
                       ELSE <<r.recipient, r.sender>>] = 1

\* C12: a send changes no Connection and no Follow row unless it
\* auto-accepts; to oneself it is answered InvalidOperation, to a connected
\* user AlreadyConnected, with a live request of the sender's own to the
\* recipient DuplicateRequest, to a missing user NotFound, and each of these
\* leaves every request row as it was and adds none.
C12_SendFrame ==
    [][last'.op = "send" =>
         LET s == last'.actor
             r == last'.target
             connected == r \in Users /\ s # r /\
                          connections[IF s < r THEN <<s, r>> ELSE <<r, s>>] > 0
             own_live == \E i \in DOMAIN requests :
                            /\ requests[i].sender = s
                            /\ requests[i].recipient = r
                            /\ Live(requests[i].status)
         IN  /\ last'.result # "Established" =>
                   connections' = connections /\ follows' = follows
             /\ r \notin Users => last'.result = "NotFound"
             /\ r = s => last'.result = "InvalidOperation"
             /\ connected => last'.result = "AlreadyConnected"
             /\ (r \in Users /\ r # s /\ ~connected /\ own_live)
                   => last'.result = "DuplicateRequest"
             /\ last'.result \in {"NotFound", "InvalidOperation",
                                  "AlreadyConnected", "DuplicateRequest"}
                   => requests' = requests]_vars

\* the higher id sent to the lower id it is connected with, and was refused
C12_Witness ==
    /\ last.op = "send" /\ last.result = "AlreadyConnected"
    /\ last.actor > last.target
    /\ requests # <<>>

\* the step accepted a request i (by ACCEPT or by auto-accept)
Accepted(i) ==
    /\ i \in DOMAIN requests
    /\ requests[i].status # ACCEPTED
    /\ requests'[i].status = ACCEPTED

\* C13: after an acceptance between A and B there is exactly one Follow row
\* A -> B and exactly one B -> A, whether or not either existed before;
\* saving an already ACCEPTED request again adds no Follow and no Connection
\* row; and no (follower, following) pair ever has two Follow rows.
C13_IdempotentFollowPair ==
    [][/\ \A i \in DOMAIN requests :
            Accepted(i) =>
               /\ follows'[<<requests[i].sender, requests[i].recipient>>] = 1
               /\ follows'[<<requests[i].recipient, requests[i].sender>>] = 1
               /\ \A k \in Pairs :
                     (k # <<requests[i].sender, requests[i].recipient>> /\
                      k # <<requests[i].recipient, requests[i].sender>>)
                     => follows'[k] = follows[k]
       /\ (last'.op = "send" /\ last'.old_status = ACCEPTED)
             => connections' = connections /\ follows' = follows
       /\ \A k \in Pairs : follows'[k] <= 1 /\ connections'[k] <= 1]_vars

\* a request was accepted by its recipient and the pair has one Follow row
\* each way
C13_Witness ==
    /\ last.op = "act" /\ last.action = "ACCEPT" /\ last.result = "OK"
    /\ last.target \in DOMAIN requests
    /\ follows[<<requests[last.target].sender, requests[last.target].recipient>>] = 1
    /\ follows[<<requests[last.target].recipient, requests[last.target].sender>>] = 1

\* an already ACCEPTED request was saved again by a send, after the pair's
\* Connection was removed
C13_ResaveWitness ==
    /\ last.op = "send" /\ last.old_status = ACCEPTED
    /\ follows[<<last.actor, last.target>>] = 1
    /\ follows[<<last.target, last.actor>>] = 1

\* the PENDING requests from one user to another
PendingRows(from, to) ==
    {i \in DOMAIN requests : /\ requests[i].sender = from
                             /\ requests[i].recipient = to
                             /\ requests[i].status = PENDING}

\* C14: the status of a user with another is CONNECTED whenever the pair has
\* a Connection, whatever Follow and request rows exist; else PENDING_SENT or
\* PENDING_RECEIVED after the direction of the pair's one PENDING request, so
\* that one user's PENDING_SENT is the other's PENDING_RECEIVED; else
\* FOLLOWING if the user follows the other; else NONE. The request id is
\* that of the PENDING request, and None otherwise.
C14_StatusPrecedence ==
    \A a, b \in Users :
        a # b =>
          LET st == RelationshipStatus(requests, connections, follows, a, b)
              back == RelationshipStatus(requests, connections, follows, b, a)
              id == RelationshipRequestId(requests, connections, a, b)
              connected == connections[IF a < b THEN <<a, b>> ELSE <<b, a>>] > 0
              sent == PendingRows(a, b)
              received == PendingRows(b, a)
          IN  /\ connected => st = "CONNECTED"
              /\ ~(sent # {} /\ received # {})
              /\ Cardinality(sent) <= 1 /\ Cardinality(received) <= 1
              /\ (~connected /\ sent # {}) => st = "PENDING_SENT" /\ {id} = sent
              /\ (~connected /\ received # {})
                    => st = "PENDING_RECEIVED" /\ {id} = received
              /\ (~connected /\ sent = {} /\ received = {})
                    => /\ st = IF follows[<<a, b>>] > 0 THEN "FOLLOWING" ELSE "NONE"
                       /\ id = 0
              /\ connected => id = 0
              /\ (st = "PENDING_SENT") <=> (back = "PENDING_RECEIVED")

\* a user follows another and has a PENDING request to them: PENDING_SENT
C14_Witness ==
    \E a, b \in Users :
        /\ a # b
        /\ follows[<<a, b>>] = 1
        /\ PendingRows(a, b) # {}
        /\ RelationshipStatus(requests, connections, follows, a, b) = "PENDING_SENT"
        /\ RelationshipStatus(requests, connections, follows, b, a)
              = "PENDING_RECEIVED"

\* C15: removeConnection between two users without a Connection fails and
\* changes nothing; otherwise it deletes the pair's one Connection row,
\* whichever of the two calls it, and leaves every Follow row and every
\* request row as it was.
C15_RemoveFrame ==
    [][(last'.op = "remove" /\ last'.target \in Users) =>
         LET a == last'.actor
             b == last'.target
             lo == IF a < b THEN a ELSE b
             hi == IF a < b THEN b ELSE a
         IN  /\ requests' = requests
             /\ follows' = follows
             /\ IF connections[<<lo, hi>>] = 0
                THEN /\ last'.result = "NotConnected"
                     /\ connections' = connections
                ELSE /\ last'.result = "Removed"
                     /\ connections'[<<lo, hi>>] = 0
                     /\ \A k \in Pairs :
                           k # <<lo, hi>> => connections'[k] = connections[k]]_vars

\* the higher id removed a Connection that an acceptance had made: the
\* request is still ACCEPTED and both Follow rows are still there
C15_Witness ==
    /\ last.op = "remove" /\ last.result = "Removed"
    /\ last.actor > last.target
    /\ connections[<<last.target, last.actor>>] = 0
    /\ follows[<<last.actor, last.target>>] = 1
    /\ follows[<<last.target, last.actor>>] = 1
    /\ \E i \in DOMAIN requests :
          /\ Between(requests[i], last.actor, last.target)
          /\ requests[i].status = ACCEPTED

\* C16: toggleFollow on another user flips the Follow row actor -> target
\* and nothing else (so a second toggle restores the Follow rows), answers
\* following = true exactly when the row exists afterwards, and is refused
\* as InvalidOperation on oneself; it changes no Connection row, no request
\* row and not the row target -> actor.
C16_ToggleFollow ==
    [][(last'.op = "follow" /\ last'.target \in Users) =>
         LET a == last'.actor
             t == last'.target
         IN  /\ requests' = requests
             /\ connections' = connections
             /\ IF t = a
                THEN last'.result = "InvalidOperation" /\ follows' = follows
                ELSE /\ follows[<<a, t>>] \in {0, 1}
                     /\ follows'[<<a, t>>] = 1 - follows[<<a, t>>]
                     /\ \A k \in Pairs : k # <<a, t>> => follows'[k] = follows[k]
                     /\ last'.result = IF follows'[<<a, t>>] = 1
                                       THEN "Following" ELSE "Unfollowed"]_vars

\* a user unfollowed another who still follows them and is connected to them
C16_Witness ==
    /\ last.op = "follow" /\ last.result = "Unfollowed"
    /\ last.target \in Users
    /\ follows[<<last.actor, last.target>>] = 0
    /\ follows[<<last.target, last.actor>>] = 1
    /\ connections[IF last.actor < last.target THEN <<last.actor, last.target>>
                   ELSE <<last.target, last.actor>>] = 1

\* the privacy field a view gate reads
GateField(op) ==
    CASE op = "canViewConnectionsList" -> "who_can_see_connections_list"
      [] op = "canViewEmail" -> "who_can_see_email"
      [] op = "canViewPhone" -> "who_can_see_phone"
      [] op = "canViewPosts" -> "who_can_see_posts"
ViewGates == {"canViewConnectionsList", "canViewEmail", "canViewPhone", "canViewPosts"}

\* what the specification has a view gate answer, from the target's own
\* field (its default while the target has no row) and the Connection table
Expected(op, viewer, target) ==
    LET setting == IF privacy[target] = {}
                   THEN UserPrivacySettings[GateField(op)]
                   ELSE settings_for_user(privacy, target)[GateField(op)]
        lo == IF viewer < target THEN viewer ELSE target
        hi == IF viewer < target THEN target ELSE viewer
    IN  IF viewer = target \/ setting = PUBLIC
           \/ (setting = CONNECTIONS_ONLY /\ connections[<<lo, hi>>] > 0)
        THEN "Allowed" ELSE "Denied"

\* C17: each of canViewConnectionsList, canViewEmail, canViewPhone and
\* canViewPosts answers, for a logged-in viewer and an existing target: true
\* when the viewer is the target; otherwise true for PUBLIC, false for
\* NO_ONE, and for CONNECTIONS_ONLY true exactly when a Connection row joins
\* the two now; the setting is the one of the gate's own field.
C17_ViewGates ==
    [][(last'.op \in ViewGates /\ last'.actor \in Users /\ last'.target \in Users) =>
         last'.result = Expected(last'.op, last'.actor, last'.target)]_vars

\* the same, leaving out the owner asking CanViewConnectionsList through a
\* route that hands the view an int
ViewGatesButOwnerByInt ==
    [][(/\ last'.op \in ViewGates
        /\ last'.actor \in Users /\ last'.target \in Users
        /\ ~(/\ last'.op = "canViewConnectionsList"
             /\ last'.action = "int"
             /\ last'.actor = last'.target)) =>
         last'.result = Expected(last'.op, last'.actor, last'.target)]_vars

\* a connected viewer was let in under CONNECTIONS_ONLY, the connection was
\* removed, and the same gate now turns the viewer away
AccessLostOnRemoval ==
    /\ last.op = "canViewEmail" /\ last.result = "Denied"
    /\ last.actor \in Users /\ last.actor # last.target
    /\ \E i \in DOMAIN requests : requests[i].status = ACCEPTED
    /\ settings_for_user(privacy, last.target).who_can_see_email = CONNECTIONS_ONLY
    /\ settings_for_user(privacy, last.target).who_can_see_posts = NO_ONE

\* the value of a privacy field of a user, the default while the user has no row
CurrentSetting(user, field) ==
    IF privacy[user] = {} THEN UserPrivacySettings[field]
    ELSE settings_for_user(privacy, user)[field]

\* C18: canSendConnectionRequest, asked for a POST by a logged-in viewer
\* about an existing target, answers false when the target's
\* who_can_send_connect_request is NO_ONE and true when it is PUBLIC or
\* CONNECTIONS_ONLY, whether or not a Connection joins the two.
C18_SendGate ==
    [][(/\ last'.op = "canSendConnectionRequest" /\ last'.action = "POST"
        /\ last'.actor \in Users /\ last'.target \in Users) =>
         last'.result =
            IF CurrentSetting(last'.target, "who_can_send_connect_request") = NO_ONE
            THEN "Denied" ELSE "Allowed"]_vars

\* the gate let a viewer through to a CONNECTIONS_ONLY target the viewer is
\* not connected to
C18_Witness ==
    /\ last.op = "canSendConnectionRequest" /\ last.action = "POST"
    /\ last.result = "Allowed"
    /\ last.actor \in Users /\ last.target \in Users /\ last.actor # last.target
    /\ CurrentSetting(last.target, "who_can_send_connect_request") = CONNECTIONS_ONLY
    /\ \A k \in Pairs : connections[k] = 0

\* C19: calculate_match_score returns an integer in 0..100; what the four
\* blocks add lies in 0..40 for subjects and in 0..20 for boards, experience
\* and qualification, so their sum is in 0..100 and is the value returned:
\* min(score, 100) changes nothing.
C19_ScoreBounds ==
    match.scored =>
        /\ match.subject \in 0..40
        /\ match.board \in 0..20
        /\ match.experience \in 0..20
        /\ match.qualification \in 0..20
        /\ match.score \in 0..100
        /\ match.score = match.subject + match.board + match.experience
                         + match.qualification

\* a job with every requirement stated scored 0 against a profile with
\* subjects and boards that miss, no years and no qualification
C19_Witness ==
    /\ match.scored /\ match.score = 0
    /\ match.job.subject_specialization # <<>>
    /\ match.job.required_experience_years > 0
    /\ match.educator_profile.qualifications = <<>>

\* a job without requirements scored 100 against a profile with empty lists
C19_WitnessFull ==
    /\ match.scored /\ match.score = 100
    /\ match.job = JobListing /\ match.educator_profile = EducatorProfile

\* J: the job's structured subjects, the legacy list when those are empty
RequiredSubjects(job) ==
    LET list == IF Len(job.subject_specialization) > 0
                THEN job.subject_specialization ELSE job.required_subjects
    IN  {list[i] : i \in 1..Len(list)}

\* C: the educator's expert subjects, the further subjects when those are empty
CandidateSubjects(educator_profile) ==
    LET list == IF Len(educator_profile.expert_subjects) > 0
                THEN educator_profile.expert_subjects
                ELSE educator_profile.subjects
    IN  {list[i] : i \in 1..Len(list)}

\* C20: the subject block adds floor(40 * |J \cap C| / |J|) when J and C are
\* both non-empty (0 when they are disjoint) and the full 40 when J is
\* empty, whatever C is.
C20_SubjectScore ==
    match.scored =>
        LET J == RequiredSubjects(match.job)
            C == CandidateSubjects(match.educator_profile)
        IN  /\ (J # {} /\ C # {}) =>
                 match.subject = (40 * Cardinality(J \cap C)) \div Cardinality(J)
            /\ (J # {} /\ C # {} /\ J \cap C = {}) => match.subject = 0
            /\ J = {} => match.subject = 40

\* one of three required subjects matched: 40 / 3 cut to 13
C20_Witness ==
    /\ match.scored /\ match.subject = 13
    /\ Cardinality(RequiredSubjects(match.job)) = 3
    /\ Cardinality(RequiredSubjects(match.job)
                   \cap CandidateSubjects(match.educator_profile)) = 1

\* the legacy list stood in for an empty structured field and was matched
C20_WitnessLegacy ==
    /\ match.scored /\ match.subject = 40
    /\ match.job.subject_specialization = <<>>
    /\ match.job.required_subjects # <<>>
    /\ match.educator_profile.expert_subjects # <<>>

\* the hierarchy level of one qualification as the educator wrote it, 0 when
\* its normalised form is no key of the hierarchy
LevelOf(qual) ==
    LET key == qual_key(qual)
    IN  IF key \in DOMAIN qualification_hierarchy
        THEN qualification_hierarchy[key] ELSE 0

\* the candidate level: the largest level among the qualifications, 0 for none
CandidateLevel(quals) ==
    IF quals = <<>> THEN 0
    ELSE CHOOSE l \in 0..6 :
            /\ \E i \in 1..Len(quals) : LevelOf(quals[i]) = l
            /\ \A i \in 1..Len(quals) : LevelOf(quals[i]) <= l

\* C21: the qualification block adds 20 when the job's minimum qualification
\* is ANY (or not given); otherwise 20 when the candidate level reaches the
\* required level of the hierarchy, else
\* floor(20 * candidate level / max(required level, 1)).
C21_QualificationScore ==
    match.scored =>
        LET required == match.job.min_qualification
            level == CandidateLevel(match.educator_profile.qualifications)
        IN  IF required \in {<<>>, ANY} THEN match.qualification = 20
            ELSE LET required_level == qualification_hierarchy[required]
                     floor == IF required_level >= 1 THEN required_level ELSE 1
                 IN  match.qualification =
                        IF level >= required_level THEN 20
                        ELSE (20 * level) \div floor

\* "B.Ed", listed after an unmapped "B.A", earned 20 against B_ED
C21_Witness ==
    /\ match.scored /\ match.qualification = 20
    /\ match.job.min_qualification = B_ED
    /\ match.educator_profile.qualifications =
          <<<<"B", ".", "A">>, <<"B", ".", "E", "d">>>>

\* "B.Ed" (level 2) earned floor(20 * 2 / 6) = 6 against PHD (level 6)
C21_WitnessPartial ==
    /\ match.scored /\ match.job.min_qualification = PHD
    /\ match.qualification = 6
    /\ CandidateLevel(match.educator_profile.qualifications) = 2

\* the educator profile with more years of experience and nothing else changed
WithYears(educator_profile, years) ==
    [educator_profile EXCEPT !.experience_years = years]

\* C22: the experience block adds 20 when the candidate's years reach the
\* required years and floor(20 * years / required) otherwise (required > 0);
\* so the same job scored against the same profile with more years gets no
\* smaller an experience amount and no smaller a total.
C22_ExperienceScore ==
    match.scored =>
        LET required == match.job.required_experience_years
            years == match.educator_profile.experience_years
        IN  /\ match.experience =
                  IF years >= required THEN 20 ELSE (20 * years) \div required
            /\ \A more \in years..MaxYears :
                  /\ experience_match(match.job,
                        WithYears(match.educator_profile, more)) >= match.experience
                  /\ calculate_match_score(match.job,
                        WithYears(match.educator_profile, more)) >= match.score

\* one year against three required: floor(20 / 3) = 6, and a further year
\* would raise the amount
C22_Witness ==
    /\ match.scored /\ match.experience = 6
    /\ match.job.required_experience_years = 3
    /\ match.educator_profile.experience_years = 1
    /\ experience_match(match.job, WithYears(match.educator_profile, 2)) = 13

\* the elements of a JSON list
Elements(list) == {list[i] : i \in 1..Len(list)}

\* C23: the board block adds 20 when the job requires no board, 20 when the
\* required boards and the candidate's boards intersect, 10 when boards are
\* required and the candidate lists none, and 0 when both are non-empty and
\* disjoint.
C23_BoardScore ==
    match.scored =>
        LET JB == Elements(match.job.required_board_experience)
            CB == Elements(match.educator_profile.boards)
        IN  match.board = IF JB = {} THEN 20
                          ELSE IF JB \cap CB # {} THEN 20
                          ELSE IF CB = {} THEN 10
                          ELSE 0

\* a board was required and the candidate listed none: 10
C23_Witness ==
    /\ match.scored /\ match.board = 10
    /\ match.job.required_board_experience # <<>>
    /\ match.educator_profile.boards = <<>>

\* a board was required and the candidate listed another: 0
C23_WitnessDisjoint ==
    /\ match.scored /\ match.board = 0
    /\ match.job.required_board_experience = <<"CBSE">>
    /\ match.educator_profile.boards = <<"ICSE">>

\* C24: get_jobs_with_match_scores returns one entry per job of the queryset
\* and nothing else, each with match_score = calculate_match_score(job,
\* profile) and match_badge = get_match_badge(match_score), ordered by
\* non-increasing score, entries of equal score in the order of the queryset.
C24_RankedJobs ==
    ranking.ranked =>
        LET jobs == ranking.jobs_queryset
            results == ranking.results
        IN  /\ Len(results) = Len(jobs)
            /\ \A i \in 1..Len(jobs) :
                  \E k \in 1..Len(results) :
                     /\ results[k].job.pk = i
                     /\ results[k].job.row = jobs[i]
                     /\ \A l \in 1..Len(results) : results[l].job.pk = i => l = k
            /\ \A k \in 1..Len(results) :
                  /\ results[k].match_score =
                        calculate_match_score(results[k].job.row,
                                              ranking.educator_profile)
                  /\ results[k].match_badge = get_match_badge(results[k].match_score)
            /\ \A k, l \in 1..Len(results) :
                  k < l =>
                     /\ results[k].match_score >= results[l].match_score
                     /\ results[k].match_score = results[l].match_score =>
                           results[k].job.pk < results[l].job.pk

\* the third job of the queryset came first, and the first two, of equal
\* score, kept their order behind it
C24_Witness ==
    /\ ranking.ranked /\ Len(ranking.results) = 3
    /\ ranking.results[1].job.pk = 3
    /\ ranking.results[2].job.pk = 1
    /\ ranking.results[3].job.pk = 2
    /\ ranking.results[1].match_score > ranking.results[2].match_score
    /\ ranking.results[2].match_score = ranking.results[3].match_score
    /\ ranking.jobs_queryset[1] # ranking.jobs_queryset[2]

\* the rank of a badge text, 0 for a text that is none of the five
Tier(text) ==
    CASE text = "Excellent Match" -> 5
      [] text = "Great Match" -> 4
      [] text = "Good Match" -> 3
      [] text = "Partial Match" -> 2
      [] text = "Low Match" -> 1
      [] OTHER -> 0

\* C25: get_match_badge gives every score in 0..100 a badge: "Excellent
\* Match" from 90, "Great Match" for 75..89, "Good Match" for 60..74,
\* "Partial Match" for 40..59, "Low Match" for 0..39; no lower score has a
\* higher tier.
C25_BadgeTiers ==
    badge.given =>
        /\ badge.text = CASE badge.score \in 90..100 -> "Excellent Match"
                          [] badge.score \in 75..89 -> "Great Match"
                          [] badge.score \in 60..74 -> "Good Match"
                          [] badge.score \in 40..59 -> "Partial Match"
                          [] badge.score \in 0..39 -> "Low Match"
        /\ \A lower \in 0..badge.score :
              Tier(get_match_badge(lower).text) <= Tier(badge.text)

\* a score on a threshold got the higher badge
C25_Witness ==
    /\ badge.given
    /\ badge.score = 75
    /\ badge.text = "Great Match"

\* C26: when ACCEPT races REJECT (or WITHDRAW) on one PENDING request, the
\* state the workers leave is consistent: a request stored as REJECTED has
\* no Connection and no Follow row created from it.  Rows between its two
\* users can only stem from it when no other request between them was ever
\* accepted (one that was is stored as ACCEPTED or WITHDRAWN).
C26_RejectedHasNoConnection ==
    (\A p \in Procs : procs[p].pc = "idle") =>
        \A i \in DOMAIN requests :
            ( /\ requests[i].status = REJECTED
              /\ \A j \in DOMAIN requests :
                    ( /\ j # i
                      /\ Between(requests[j], requests[i].sender,
                                 requests[i].recipient) )
                    => requests[j].status \notin {ACCEPTED, WITHDRAWN} )
            => LET s == requests[i].sender
                   r == requests[i].recipient
               IN  /\ connections[IF s < r THEN <<s, r>> ELSE <<r, s>>] = 0
                   /\ follows[<<s, r>>] = 0
                   /\ follows[<<r, s>>] = 0

\* C27: a send to a recipient whose who_can_send_connect_request is NO_ONE
\* neither creates a PENDING request to that recipient nor auto-accepts: it
\* leaves every request, Connection and Follow row as it was.
C27_SendHonoursNoOne ==
    [][(/\ last'.op = "send" /\ last'.target \in Users
        /\ CurrentSetting(last'.target, "who_can_send_connect_request") = NO_ONE) =>
         /\ last'.result \notin {"Created", "Established"}
         /\ requests' = requests
         /\ connections' = connections
         /\ follows' = follows]_vars

\* C28: with the operations applied one at a time, two users joined by a
\* Connection have no PENDING request between them in either direction, and
\* no request, Follow or Connection row has the same user on both sides.
C28_NoPendingWhileConnected ==
    /\ \A k \in Pairs :
          connections[k] > 0 =>
             \A i \in DOMAIN requests :
                Between(requests[i], k[1], k[2]) => requests[i].status # PENDING
    /\ \A i \in DOMAIN requests : requests[i].sender # requests[i].recipient
    /\ \A u \in Users : connections[<<u, u>>] = 0 /\ follows[<<u, u>>] = 0

\* two connected users after the accepted request was withdrawn and a send
\* between them was refused because they are connected
C28_Witness ==
    /\ last.op = "send" /\ last.result = "AlreadyConnected"
    /\ \E k \in Pairs : connections[k] > 0
    /\ \E i \in DOMAIN requests :
          /\ requests[i].status = WITHDRAWN
          /\ requests[i].sender = last.target
          /\ requests[i].recipient = last.actor

\* the educator profile listing other expert subjects and nothing else changed
WithSubjects(educator_profile, expert_subjects) ==
    [educator_profile EXCEPT !.expert_subjects = expert_subjects]

\* C29: the score does not fall when the candidate's subject set grows: for
\* the same job and a profile that differs in its subjects only, C a subset
\* of C' gives score(C) <= score(C'); so a candidate without subjects never
\* scores above one who lists some against a job that requires subjects.
C29_MonotoneInSubjects ==
    match.scored =>
        \A more \in Slices(SubSeq(SUBJECT_CHOICES, 1, MaxSubjects + 1), 2) :
            LET other == WithSubjects(match.educator_profile, more)
            IN  CandidateSubjects(match.educator_profile) \subseteq CandidateSubjects(other)
                => match.score <= calculate_match_score(match.job, other)


\* a user in the teacher role: stored as TEACHER, or as EDUCATOR, the name the
\* role has in UserType
Teacher(u) == user_type[u] \in {TEACHER, EDUCATOR}

\* C30: only teachers follow each other: in every state reached through the
\* feed follow endpoint, the network toggleFollow endpoint and connection
\* acceptance, the follower and the following user of every Follow row are
\* both in the teacher role.
C30_OnlyTeachersFollow ==
    \A k \in Pairs : follows[k] > 0 => Teacher(k[1]) /\ Teacher(k[2])

====
